---- MODULE Spec2Model ----
(***************************************************************************)
(* A model of the ColleXions collection selection engine                   *)
(* (src/ColleXions.py): the recency ledger, the active-window resolver,    *)
(* the exclusion resolver, the tiered selection of filter_collections and  *)
(* the run coordinator main.                                               *)
(*                                                                         *)
(* Time is counted in whole hours.  JSON values are modelled with their    *)
(* type: a value that may be of the wrong type carries a flag saying       *)
(* whether it has the type the code tests for with isinstance.             *)
(***************************************************************************)
EXTENDS Integers, Sequences, FiniteSets, TLC

VARIABLES
    now,        \* datetime.now(), in hours
    today,      \* datetime.now().date(): [leap, m, d]
    config,     \* the configuration (config.json as loaded)
    file,       \* the ledger file SELECTED_COLLECTIONS_FILE
    history,    \* the ledger in memory (selected_collections_history)
    pool,       \* all_collections_in_library: a sequence of candidates
    pc,         \* position of the process
    run,        \* the local variables of run_continuously and of its
                \* current run of main
    written,    \* the ledger entries that runs of main have saved so far
    web,        \* the web UI: its request handlers and the script processes
    plex,       \* what Plex holds of each collection: promoted or not, labels
    out         \* what the last call took and returned

vars ==
    <<now, today, config, file, history, pool, pc, run, written, web, plex, out>>

----------------------------------------------------------------------------
(* Bounds of the model *)

\* the ledgers of SpecRecent hold at most this many entries
MaxEntries == 2
\* the current time of SpecRecent; timestamps range over 0 .. RecentNow + 1
RecentNow == 13
\* the libraries of the model hold at most this many collections
MaxPool == 3
\* the pin limits of the libraries range over 1 .. MaxLimit
MaxLimit == 2
\* the last hour of the clock of Spec
MaxClock == 2
\* the pin limits of SpecCategory range over 1 .. MaxCategoryLimit
MaxCategoryLimit == 3

----------------------------------------------------------------------------
(* Values *)

\* a JSON element that is not a string (a number, null, an object)
NonStr == "<non-string>"

\* the titles of the model; "S " is the title "S" followed by a blank
Titles == {"A", "B", "S", "S "}

\* str.strip() on the strings of the model
Strip(s) == IF s = "S " THEN "S" ELSE IF s = " " THEN "" ELSE s

\* f restricted to the keys in S
Restrict(f, S) == [k \in S |-> f[k]]

\* the empty dict
EmptyDict == [k \in {} |-> {}]

----------------------------------------------------------------------------
(* The recency ledger *)

\* A ledger key is a string: "naive" ones parse to the time t (by strptime or
\* fromisoformat), "invalid" ones parse with neither (ValueError), "aware"
\* ones parse to a time with a UTC offset, which cannot be compared to
\* cutoff_time (TypeError).
LedgerKeys(times) ==
    [kind : {"naive"}, t : times] \cup [kind : {"invalid", "aware"}, t : {0}]

\* A ledger value: islist says whether it is a JSON list, elems are its
\* elements (titles and non-strings).
LedgerValue(islist, elems) == [islist |-> islist, elems |-> elems]

\* the hours of the window when the configured value is unusable
DefaultRepeatBlockHours == 12

\* RepeatBlockHours with a window of zero hours accepted as it is
RepeatBlockHours_ZeroAccepted(cfg) ==
    LET v == cfg.repeat_block_hours
    IN  IF ~v.isnum \/ v.v < 0 THEN DefaultRepeatBlockHours ELSE v.v

\* repeat_block_hours as get_recently_pinned_collections uses it
RepeatBlockHours(cfg) ==
    LET v == cfg.repeat_block_hours
    IN  IF ~v.isnum \/ v.v <= 0 THEN DefaultRepeatBlockHours ELSE v.v

\* the outcomes of writing the ledger file
IOOutcomes == {"ok", "open_error", "write_error"}

\* save_selected_collections: open(..., 'w') truncates the file, json.dump
\* writes it; an exception is logged and swallowed.
save_selected_collections(f, selected_collections, io) ==
    CASE io = "ok"          -> [kind |-> "object", data |-> selected_collections]
      [] io = "open_error"  -> f
      [] io = "write_error" -> [kind |-> "partial", data |-> EmptyDict]

\* NotOlder with the entry at the cutoff itself taken as old
NotOlder_Strict(t, cutoff_time) == t > cutoff_time

\* timestamp >= cutoff_time
NotOlder(t, cutoff_time) == t >= cutoff_time

\* get_recently_pinned_collections gathering the titles of every entry that
\* parses, the old ones included
get_recently_pinned_collections_TitlesOfOld(selected_collections, cfg, clock) ==
    LET repeat_block_hours == RepeatBlockHours(cfg)
        cutoff_time == clock - repeat_block_hours
        history_items == DOMAIN selected_collections
        not_a_list == {k \in history_items : ~selected_collections[k].islist}
        bad_date == {k \in history_items \ not_a_list : k.kind # "naive"}
        parsed == history_items \ (not_a_list \cup bad_date)
        timestamps_to_keep == {k \in parsed : NotOlder(k.t, cutoff_time)}
        pruned == Restrict(selected_collections, timestamps_to_keep)
        recent_titles ==
            UNION {{e \in selected_collections[k].elems : e # NonStr} :
                      k \in parsed}
    IN  [recent_titles |-> recent_titles,
         selected_collections |-> pruned,
         saves |-> IF parsed # timestamps_to_keep THEN <<pruned>> ELSE <<>>]

\* get_recently_pinned_collections at time clock: the titles returned, the
\* ledger as the call leaves it, and the ledgers handed to
\* save_selected_collections.
get_recently_pinned_collections(selected_collections, cfg, clock) ==
    LET repeat_block_hours == RepeatBlockHours(cfg)
        cutoff_time == clock - repeat_block_hours
        history_items == DOMAIN selected_collections
        \* popped inside the loop
        not_a_list == {k \in history_items : ~selected_collections[k].islist}
        bad_date == {k \in history_items \ not_a_list : k.kind # "naive"}
        parsed == history_items \ (not_a_list \cup bad_date)
        timestamps_to_keep == {k \in parsed : NotOlder(k.t, cutoff_time)}
        after_loop == Restrict(selected_collections, parsed)
        \* removed after the loop
        keys_to_remove == (DOMAIN after_loop) \ timestamps_to_keep
        removed_count == Cardinality(keys_to_remove)
        pruned == Restrict(after_loop, (DOMAIN after_loop) \ keys_to_remove)
        recent_titles ==
            UNION {{e \in selected_collections[k].elems : e # NonStr} :
                      k \in timestamps_to_keep}
    IN  [recent_titles |-> recent_titles,
         selected_collections |-> pruned,
         saves |-> IF removed_count > 0 THEN <<pruned>> ELSE <<>>]

----------------------------------------------------------------------------
(* The active-window resolver *)

\* the strings of the model in the order of Python's str comparison
TitleOrder == <<"", "A", "B", "S", "S ">>

\* the elements of the sequence s
Range(s) == {s[i] : i \in 1 .. Len(s)}

\* sorted(list(S)) for a set S of strings
SortedList(S) ==
    LET In(t) == t \in S IN SelectSeq(TitleOrder, In)

\* A date of the configuration: isstr says whether the JSON value is a
\* string; a string "MM-DD" is modelled by its two numbers, any other string
\* by numbers that name no day (month 13).
DateStr(m, d) == [isstr |-> TRUE, m |-> m, d |-> d]
NotDateStr == [isstr |-> FALSE, m |-> 0, d |-> 0]

\* collection_names: islist says whether the JSON value is a list, elems are
\* its elements in order (strings and non-strings)
Names(elems) == [islist |-> TRUE, elems |-> elems]
NotNames == [islist |-> FALSE, elems |-> <<>>]

\* An entry of special_collections: isdict says whether it is a JSON
\* object, keys are the keys it has.
Special(isdict, keys, start_date, end_date, collection_names) ==
    [isdict |-> isdict, keys |-> keys, start_date |-> start_date,
     end_date |-> end_date, collection_names |-> collection_names]

SpecialKeys == {"start_date", "end_date", "collection_names"}

\* the number of days of month m
DaysInMonth(m, leap) ==
    CASE m = 2 -> IF leap THEN 29 ELSE 28
      [] m \in {4, 6, 9, 11} -> 30
      [] OTHER -> 31

\* datetime.strptime(s, '%m-%d') raises no ValueError: the string names a day
\* of the year 1900, the year strptime gives a date without one
StrptimeParses(s) ==
    /\ s.m \in 1 .. 12
    /\ s.d \in 1 .. DaysInMonth(s.m, FALSE)

\* a <= b for two dates of the same year
DateLE(a, b) == a.m < b.m \/ (a.m = b.m /\ a.d <= b.d)

\* is_active of lines 537-552: end-inclusive comparison with the year-wrap case
IsActive(start_date, end_date, current_date) ==
    IF ~DateLE(start_date, end_date)
    THEN DateLE(start_date, current_date) \/ DateLE(current_date, end_date)
    ELSE DateLE(start_date, current_date) /\ DateLE(current_date, end_date)

\* the entry passes the validation of lines 509-523
SpecialIsValid(special) ==
    /\ special.isdict
    /\ SpecialKeys \subseteq special.keys
    /\ special.start_date.isstr
    /\ special.end_date.isstr
    /\ special.collection_names.islist
    /\ NonStr \notin Range(special.collection_names.elems)

\* what one entry adds to active_titles (the body of the loop, lines 507-561)
ActiveNamesOf(special, current_date) ==
    LET NonEmpty(n) == n # ""
    IN  IF /\ SpecialIsValid(special)
           /\ StrptimeParses(special.start_date)
           /\ StrptimeParses(special.end_date)
           /\ IsActive(special.start_date, special.end_date, current_date)
        THEN SelectSeq(special.collection_names.elems, NonEmpty)
        ELSE <<>>

RECURSIVE ActiveTitlesFrom(_, _, _)
\* active_titles as the entries i, i+1, ... extend it
ActiveTitlesFrom(special_configs, i, current_date) ==
    IF i > Len(special_configs)
    THEN <<>>
    ELSE ActiveNamesOf(special_configs[i], current_date)
         \o ActiveTitlesFrom(special_configs, i + 1, current_date)

\* get_active_special_collections: the sorted list of the active titles
get_active_special_collections(cfg, current_date) ==
    SortedList(Range(ActiveTitlesFrom(cfg.special_collections, 1, current_date)))

\* get_all_special_collection_names: the stripped, non-empty string names of
\* every entry that is an object with a list under collection_names
get_all_special_collection_names(cfg) ==
    LET special_configs == cfg.special_collections
        Usable(special) ==
            /\ special.isdict
            /\ "collection_names" \in special.keys
            /\ special.collection_names.islist
        valid_names(special) ==
            {Strip(name) : name \in
                {n \in Range(special.collection_names.elems) :
                    n # NonStr /\ Strip(n) # ""}}
    IN  UNION {valid_names(special_configs[i]) :
                  i \in {j \in 1 .. Len(special_configs) : Usable(special_configs[j])}}

----------------------------------------------------------------------------
(* The exclusion resolver *)

\* get_fully_excluded_collections: the stripped explicit exclusions and the
\* special titles that are not active
get_fully_excluded_collections(cfg, active_special_collections) ==
    LET explicit_exclusion_set ==
            {Strip(name) : name \in
                {n \in cfg.exclusion_list : n # NonStr /\ Strip(n) # ""}}
        all_special_titles == get_all_special_collection_names(cfg)
        active_special_set == Range(active_special_collections)
        inactive_special_set == all_special_titles \ active_special_set
    IN  explicit_exclusion_set \cup inactive_special_set

\* An exclusion pattern: "regex" compiles and matches the titles in matches,
\* "invalid" raises re.error (as "("), "overflow" raises another exception
\* when it is compiled (as "a{4294967296}", an OverflowError), "empty" is the
\* empty string, "nonstr" is not a string.
Pattern(kind, matches) == [kind |-> kind, matches |-> matches]

RECURSIVE RegexFrom(_, _, _)
\* the loop of is_regex_excluded from pattern i on: a match returns True,
\* re.error goes on to the next pattern, any other exception returns False
RegexFrom(title, patterns, i) ==
    IF i > Len(patterns)
    THEN FALSE
    ELSE CASE patterns[i].kind = "regex" /\ title \in patterns[i].matches -> TRUE
           [] patterns[i].kind = "overflow" -> FALSE
           [] OTHER -> RegexFrom(title, patterns, i + 1)

\* is_regex_excluded
is_regex_excluded(title, patterns) == RegexFrom(title, patterns, 1)

----------------------------------------------------------------------------
(* The selection engine *)

\* A collection of the library: its title and its childCount, which may
\* raise when read.
Collection(title, readable, childCount) ==
    [title |-> title, readable |-> readable, childCount |-> childCount]

\* the threshold when the configured one is unusable
DefaultMinItems == 10

\* min_items_threshold of filter_collections
MinItemsThreshold(cfg) ==
    LET v == cfg.min_items_for_pinning
    IN  IF ~v.isnum \/ v.v < 0 THEN DefaultMinItems ELSE v.v

\* LowItemCount with a count that cannot be read let through
LowItemCount_Lenient(collection, min_items_threshold) ==
    collection.readable /\ collection.childCount < min_items_threshold

\* Filter 3: the collection is dropped for its item count
LowItemCount(collection, min_items_threshold) ==
    ~collection.readable \/ collection.childCount < min_items_threshold

\* IsEligible with the recency filter applied to active specials too
IsEligible_RecencyForAll(collection, titles_fully_excluded, regex_patterns, active_special_titles, min_items_threshold, recently_pinned) ==
    LET coll_title == collection.title
        is_active_special == coll_title \in Range(active_special_titles)
    IN  /\ coll_title # ""
        /\ coll_title \notin titles_fully_excluded
        /\ ~is_regex_excluded(coll_title, regex_patterns)
        /\ is_active_special \/ ~LowItemCount(collection, min_items_threshold)
        /\ coll_title \notin recently_pinned

\* IsEligible without the recency filter
IsEligible_NoRecency(collection, titles_fully_excluded, regex_patterns, active_special_titles, min_items_threshold, recently_pinned) ==
    LET coll_title == collection.title
        is_active_special == coll_title \in Range(active_special_titles)
    IN  /\ coll_title # ""
        /\ coll_title \notin titles_fully_excluded
        /\ ~is_regex_excluded(coll_title, regex_patterns)
        /\ is_active_special \/ ~LowItemCount(collection, min_items_threshold)

\* the collection passes the initial filters (the body of the loop,
\* lines 689-732)
IsEligible(collection, titles_fully_excluded, regex_patterns, active_special_titles, min_items_threshold, recently_pinned) ==
    LET coll_title == collection.title
        is_active_special == coll_title \in Range(active_special_titles)
    IN  /\ coll_title # ""
        /\ coll_title \notin titles_fully_excluded
        /\ ~is_regex_excluded(coll_title, regex_patterns)
        /\ is_active_special \/ ~LowItemCount(collection, min_items_threshold)
        /\ ~(~is_active_special /\ coll_title \in recently_pinned)

\* the position in the shuffled list of element i of a list of n elements,
\* for the shuffle that ranks the elements by perm
ShuffledPos(perm, n, i) == Cardinality({j \in 1 .. n : perm[j] < perm[i]}) + 1

\* random.shuffle: the list in the order the shuffle perm gives
Shuffle(list, perm) ==
    LET n == Len(list)
    IN  [k \in 1 .. n |-> list[CHOOSE i \in 1 .. n : ShuffledPos(perm, n, i) = k]]

\* the shuffles of lists of up to n elements
Shuffles(n) ==
    {perm \in [1 .. n -> 1 .. n] : \A i, j \in 1 .. n : perm[i] = perm[j] => i = j}

\* fill_with_random_collections taking the whole pool
fill_with_random_collections_All(random_collections_pool, remaining_slots, perm) ==
    IF remaining_slots <= 0 \/ random_collections_pool = <<>>
    THEN <<>>
    ELSE Shuffle(random_collections_pool, perm)

\* fill_with_random_collections drawing as random.sample does, which gives
\* nothing when the pool is smaller than the slots
fill_with_random_collections_Sample(random_collections_pool, remaining_slots, perm) ==
    IF remaining_slots <= 0 \/ random_collections_pool = <<>>
       \/ remaining_slots > Len(random_collections_pool)
    THEN <<>>
    ELSE SubSeq(Shuffle(random_collections_pool, perm), 1, remaining_slots)

\* fill_with_random_collections
fill_with_random_collections(random_collections_pool, remaining_slots, perm) ==
    IF remaining_slots <= 0 \/ random_collections_pool = <<>>
    THEN <<>>
    ELSE LET available == Shuffle(random_collections_pool, perm)
             num_to_select ==
                 IF remaining_slots < Len(available)
                 THEN remaining_slots ELSE Len(available)
         IN  SubSeq(available, 1, num_to_select)

\* the titles of a list of collections
TitlesOf(list) == {list[i].title : i \in 1 .. Len(list)}

\* SpecialPick without the look at the titles already selected
SpecialPick_AnyTitle(coll_title, active_special_titles, remaining_slots, pinned_titles) ==
    /\ coll_title \in Range(active_special_titles)
    /\ remaining_slots > 0

\* the override tier may take the collection
SpecialPick(coll_title, active_special_titles, remaining_slots, pinned_titles) ==
    /\ coll_title \in Range(active_special_titles)
    /\ remaining_slots > 0
    /\ coll_title \notin pinned_titles

RECURSIVE SpecialWalk(_, _, _, _)
\* Priority 1 (lines 753-762) from element i of the shuffled pool on; st holds
\* special_collections_found, temp_eligible_pool, remaining_slots and
\* pinned_titles
SpecialWalk(eligible, i, active_special_titles, st) ==
    IF i > Len(eligible)
    THEN st
    ELSE LET collection == eligible[i]
         IN  IF SpecialPick(collection.title, active_special_titles,
                            st.remaining_slots, st.pinned_titles)
             THEN SpecialWalk(eligible, i + 1, active_special_titles,
                      [st EXCEPT !.found = Append(@, collection),
                                 !.pinned_titles = @ \cup {collection.title},
                                 !.remaining_slots = @ - 1])
             ELSE SpecialWalk(eligible, i + 1, active_special_titles,
                      [st EXCEPT !.rest = Append(@, collection)])

\* An entry of the categories of a library: isdict says whether it is a
\* JSON object, keys are the keys it has, collections is the set of its
\* member titles.
Category(isdict, keys, category_name, pin_count, collections) ==
    [isdict |-> isdict, keys |-> keys, category_name |-> category_name,
     pin_count |-> pin_count, collections |-> collections]

CategoryKeys == {"category_name", "pin_count", "collections"}

\* config.get('categories', {}).get(library_name, [])
LibraryCategories(cfg, library_name) ==
    IF library_name \in DOMAIN cfg.categories
    THEN cfg.categories[library_name] ELSE <<>>

\* category_def.get('pin_count', 0)
PinCount(category_def) ==
    IF "pin_count" \in category_def.keys THEN category_def.pin_count.v ELSE 0

\* category_def.get('collections', [])
MemberTitles(category_def) ==
    IF "collections" \in category_def.keys THEN category_def.collections ELSE {}

\* Lines 786-799 raise: an entry without .get, a pin_count that cannot be
\* compared with 0, or a category_name missing where it is indexed
CategoryConfigRaises(library_categories_config) ==
    \E i \in 1 .. Len(library_categories_config) :
        LET category_def == library_categories_config[i]
        IN  \/ ~category_def.isdict
            \/ "pin_count" \in category_def.keys /\ ~category_def.pin_count.isnum
            \/ PinCount(category_def) > 0 /\ "category_name" \notin category_def.keys

\* category_title_map[title]: the entries with a pin_count above 0 that list
\* the title, in the order of the configuration
CategoryTitleMap(library_categories_config, title) ==
    LET Lists(category_def) ==
            PinCount(category_def) > 0 /\ title \in MemberTitles(category_def)
    IN  SelectSeq(library_categories_config, Lists)

\* category_slots_remaining as first built: for each name the pin_count of
\* the last entry that carries it
CategorySlots(library_categories_config) ==
    LET positive == {i \in 1 .. Len(library_categories_config) :
                        PinCount(library_categories_config[i]) > 0}
        names == {library_categories_config[i].category_name : i \in positive}
        Last(name) ==
            CHOOSE i \in positive :
                /\ library_categories_config[i].category_name = name
                /\ \A j \in positive :
                      library_categories_config[j].category_name = name => j <= i
    IN  [name \in names |-> PinCount(library_categories_config[Last(name)])]

\* the categories of the title that still want a collection
CategoriesWithSlots(cats_of_title, slots) ==
    LET Wants(category_def) ==
            /\ category_def.category_name \in DOMAIN slots
            /\ slots[category_def.category_name] > 0
    IN  SelectSeq(cats_of_title, Wants)

\* what the category tier notes for a collection it leaves to the random tier
NotPicked == "<not picked>"

RECURSIVE CategoryWalk(_, _, _, _)
\* Priority 2 (lines 804-830) from element i of the pool on; st holds
\* category_collections_found, the category each was taken for,
\* pool_after_categories, remaining_slots, category_slots_remaining,
\* pinned_titles and, for every collection of the pool in turn, the category
\* it was taken for or NotPicked
CategoryWalk(eligible, i, library_categories_config, st) ==
    IF i > Len(eligible)
    THEN st
    ELSE LET collection == eligible[i]
             wanting ==
                 CategoriesWithSlots(
                     CategoryTitleMap(library_categories_config, collection.title),
                     st.slots)
         IN  IF st.remaining_slots > 0 /\ wanting # <<>>
             THEN LET cat_name == wanting[1].category_name
                  IN  CategoryWalk(eligible, i + 1, library_categories_config,
                          [st EXCEPT !.found = Append(@, collection),
                                     !.found_for = Append(@, cat_name),
                                     !.charged = Append(@, cat_name),
                                     !.pinned_titles = @ \cup {collection.title},
                                     !.remaining_slots = @ - 1,
                                     !.slots[cat_name] = @ - 1])
             ELSE CategoryWalk(eligible, i + 1, library_categories_config,
                      [st EXCEPT !.rest = Append(@, collection),
                                 !.charged = Append(@, NotPicked)])

\* eligible_collections_pool of filter_collections before it is shuffled
\* (lines 667-732)
EligiblePool(cfg, all_collections_in_library, active_special_titles, recently_pinned) ==
    LET titles_fully_excluded ==
            get_fully_excluded_collections(cfg, active_special_titles)
        Passes(collection) ==
            IsEligible(collection, titles_fully_excluded,
                       cfg.regex_exclusion_patterns, active_special_titles,
                       MinItemsThreshold(cfg), recently_pinned)
    IN  SelectSeq(all_collections_in_library, Passes)

\* collections_to_pin with the random picks put first
CollectionsToPin_RandomFirst(special_collections_found, category_collections_found, random_collections_found) ==
    random_collections_found \o special_collections_found
        \o category_collections_found

\* collections_to_pin as the three extend calls build it (lines 764, 833, 846)
CollectionsToPin(special_collections_found, category_collections_found, random_collections_found) ==
    special_collections_found \o category_collections_found
        \o random_collections_found

\* filter_collections, with the outcomes perm1 and perm2 of its two shuffles.
\* Besides collections_to_pin (result) the record holds the values of the
\* function's local variables and whether an exception left the function.
filter_collections(cfg, all_collections_in_library, active_special_titles, library_pin_limit, library_name, selected_collections_history, clock, perm1, perm2) ==
    LET titles_fully_excluded ==
            get_fully_excluded_collections(cfg, active_special_titles)
        recent ==
            get_recently_pinned_collections(selected_collections_history, cfg, clock)
        eligible_collections_pool ==
            EligiblePool(cfg, all_collections_in_library, active_special_titles,
                         recent.recent_titles)
        shuffled == Shuffle(eligible_collections_pool, perm1)
        tier1 ==
            SpecialWalk(shuffled, 1, active_special_titles,
                [found |-> <<>>, rest |-> <<>>, pinned_titles |-> {},
                 remaining_slots |-> library_pin_limit])
        library_categories_config == LibraryCategories(cfg, library_name)
        runs_categories ==
            tier1.remaining_slots > 0 /\ library_categories_config # <<>>
        raised == eligible_collections_pool # <<>> /\ runs_categories
                  /\ CategoryConfigRaises(library_categories_config)
        tier2 ==
            IF runs_categories /\ ~raised
            THEN CategoryWalk(tier1.rest, 1, library_categories_config,
                     [found |-> <<>>, found_for |-> <<>>, rest |-> <<>>,
                      charged |-> <<>>,
                      pinned_titles |-> tier1.pinned_titles,
                      remaining_slots |-> tier1.remaining_slots,
                      slots |-> CategorySlots(library_categories_config)])
            ELSE [found |-> <<>>, found_for |-> <<>>, rest |-> tier1.rest,
                  charged |-> <<>>,
                  pinned_titles |-> tier1.pinned_titles,
                  remaining_slots |-> tier1.remaining_slots,
                  slots |-> EmptyDict]
        random_collections_found ==
            IF tier2.remaining_slots > 0
            THEN fill_with_random_collections(tier2.rest, tier2.remaining_slots, perm2)
            ELSE <<>>
        selected == eligible_collections_pool # <<>> /\ ~raised
    IN  [raised |-> raised,
         result |-> IF selected
                    THEN CollectionsToPin(tier1.found, tier2.found,
                                          random_collections_found)
                    ELSE <<>>,
         eligible |-> eligible_collections_pool,
         special_found |-> IF selected THEN tier1.found ELSE <<>>,
         category_found |-> IF selected THEN tier2.found ELSE <<>>,
         category_found_for |-> IF selected THEN tier2.found_for ELSE <<>>,
         category_pool |-> IF selected /\ runs_categories THEN tier1.rest ELSE <<>>,
         category_charged |-> IF selected THEN tier2.charged ELSE <<>>,
         category_slots |-> IF selected THEN tier2.slots ELSE EmptyDict,
         random_found |-> IF selected THEN random_collections_found ELSE <<>>,
         random_pool |-> IF selected THEN tier2.rest ELSE <<>>,
         titles_fully_excluded |-> titles_fully_excluded,
         recent_titles |-> recent.recent_titles,
         selected_collections |-> recent.selected_collections,
         saves |-> recent.saves]

----------------------------------------------------------------------------
(* Configuration *)

\* a configured number: isnum says whether the JSON value is a number
Num(v) == [isnum |-> TRUE, v |-> v]
NotNum == [isnum |-> FALSE, v |-> 0]

\* the configuration every specification starts from; each specification
\* draws the fields its operations read
BaseConfig ==
    [repeat_block_hours |-> Num(12),
     min_items_for_pinning |-> Num(10),
     exclusion_list |-> {},
     regex_exclusion_patterns |-> <<>>,
     special_collections |-> <<>>,
     library_names |-> <<"Movies">>,
     number_of_collections_to_pin |-> [l \in {"Movies"} |-> Num(1)],
     categories |-> [l \in {} |-> <<>>],
     use_random_category_mode |-> FALSE,
     random_category_skip_percent |-> Num(70),
     collexions_label |-> "Collexions"]

\* the locals of run_continuously and main before the first run; failed
\* says how the current run of main failed, pin_interval_bound whether the
\* loop has assigned its local pin_interval, pinned_by_last_run which titles
\* the run before this one pinned
NoRun ==
    [id |-> 0, run_start_time |-> 0, lib |-> 0, failed |-> "none",
     pin_interval_bound |-> FALSE, pinned_by_last_run |-> {},
     all_newly_pinned_titles_this_run |-> {}, special_titles_selected |-> {},
     other_titles_selected |-> {}, other_titles_pinned |-> {},
     other_titles_failed |-> {}, entries_added |-> 0,
     entry_added_early |-> FALSE, loaded_from |-> "missing"]

\* the web UI handles at most this many requests at a time
MaxHandlers == 2
\* the web UI launches the script at most this many times
MaxLaunches == 3

\* the threads of the web server that handle the requests
Handlers == 1 .. MaxHandlers

\* the web UI before any request: no script process runs, every handler is
\* idle; seen is what a handler found when it listed the processes
NoWeb ==
    [procs |-> {}, launched |-> 0, overlapped |-> FALSE,
     handler |-> [h \in Handlers |-> "idle"],
     seen |-> [h \in Handlers |-> {}]]

\* the state of Plex when the specification does not follow it
NoPlex == [t \in {} |-> {}]

\* a day that no definition of the model needs
NoDay == [leap |-> FALSE, m |-> 1, d |-> 1]

----------------------------------------------------------------------------
(* SpecRecent: get_recently_pinned_collections on every small ledger *)

\* the values of repeat_block_hours that SpecRecent draws
RbhValues == {NotNum, Num(-1), Num(0), Num(1), Num(5)}

\* the values of the entries that SpecRecent draws
RecentValues ==
    {LedgerValue(TRUE, {"A"}), LedgerValue(TRUE, {"B", NonStr}),
     LedgerValue(FALSE, {})}

\* the ledgers over the keys K with at most n entries
Ledgers(K, n) ==
    UNION {[S -> RecentValues] : S \in {T \in SUBSET K : Cardinality(T) <= n}}

InitRecent ==
    /\ now = RecentNow
    /\ today = NoDay
    /\ \E v \in RbhValues : config = [BaseConfig EXCEPT !.repeat_block_hours = v]
    /\ history \in Ledgers(LedgerKeys(0 .. RecentNow + 1), MaxEntries)
    /\ file = [kind |-> "object", data |-> history]
    /\ pool = <<>>
    /\ pc = "recent"
    /\ run = NoRun
    /\ written = {}
    /\ web = NoWeb
    /\ plex = NoPlex
    /\ out = [op |-> "none"]

\* what a call notes of the call before it when there was none
NoCall == [called |-> FALSE, before |-> EmptyDict, recent |-> {}, ledger |-> EmptyDict]

\* one call of get_recently_pinned_collections on the ledger in memory; the
\* call notes what the call before it took, returned and left
RecentCall ==
    /\ pc = "recent"
    /\ \E io \in IOOutcomes :
         LET r == get_recently_pinned_collections(history, config, now)
         IN  /\ history' = r.selected_collections
             /\ file' = IF r.saves # <<>>
                        THEN save_selected_collections(file, r.saves[1], io)
                        ELSE file
             /\ out' = [op |-> "recent", before |-> history,
                        file_before |-> file, recent |-> r.recent_titles,
                        saves |-> r.saves, io |-> io,
                        previous |-> IF out.op = "recent"
                                     THEN [called |-> TRUE, before |-> out.before,
                                           recent |-> out.recent,
                                           ledger |-> history]
                                     ELSE NoCall]
    /\ UNCHANGED <<now, today, config, pool, pc, run, written, web, plex>>

NextRecent == RecentCall

SpecRecent == InitRecent /\ [][NextRecent]_vars

\* the entries of ledger l that are well-formed: a parseable timestamp and a
\* list of strings
WellFormedEntry(l, k) ==
    k.kind = "naive" /\ l[k].islist /\ NonStr \notin l[k].elems

\* the keys of ledger l that are not older than the window w at time clock
Fresh(l, clock, w) == {k \in DOMAIN l : k.kind = "naive" /\ k.t >= clock - w}

\* C8: for a ledger of well-formed entries, get_recently_pinned_collections
\* returns exactly the union of the titles of the entries whose timestamp
\* is not older than now - repeat_block_hours, leaves in the ledger exactly
\* those entries, and, whenever an entry was removed, hands the pruned ledger
\* to save_selected_collections, which writes it to the file.
C8_RecentExactAndPruned ==
    (out.op = "recent" /\ \A k \in DOMAIN out.before : WellFormedEntry(out.before, k))
    => LET fresh == Fresh(out.before, now, RepeatBlockHours(config))
       IN  /\ out.recent = UNION {out.before[k].elems : k \in fresh}
           /\ history = Restrict(out.before, fresh)
           /\ fresh # DOMAIN out.before
              => /\ out.saves = <<history>>
                 /\ out.io = "ok" => file = [kind |-> "object", data |-> history]

\* a call on a well-formed ledger that kept an entry, removed another and
\* wrote the file
C8_Witness ==
    /\ out.op = "recent"
    /\ \A k \in DOMAIN out.before : WellFormedEntry(out.before, k)
    /\ out.recent # {}
    /\ DOMAIN history # {}
    /\ DOMAIN history # DOMAIN out.before
    /\ out.io = "ok"
    /\ file.data = history

\* an entry that is corrupt: its value is not a list of strings or its
\* timestamp does not parse
CorruptEntry(l, k) == ~WellFormedEntry(l, k)

\* C9: when get_recently_pinned_collections meets a corrupt ledger entry, the
\* entry is removed from the ledger and the removal is persisted to the
\* ledger file by that same call, also when no other entry was pruned for age.
C9_CorruptRemovedAndPersisted ==
    out.op = "recent"
    => \A k \in DOMAIN out.before :
          CorruptEntry(out.before, k)
          => /\ k \notin DOMAIN history
             /\ out.saves = <<history>>
             /\ out.io = "ok" => (file.kind = "object" /\ k \notin DOMAIN file.data)

C22_PruningIdempotent ==
    (out.op = "recent" /\ out.previous.called)
    => /\ out.before = out.previous.ledger
       /\ history = out.previous.ledger
       /\ out.recent = out.previous.recent
       /\ out.saves = <<>>

\* a second call after a first one that removed an old and a corrupt entry
\* and returned a title
C22_Witness ==
    /\ out.op = "recent"
    /\ out.previous.called
    /\ \E k \in DOMAIN out.previous.before : CorruptEntry(out.previous.before, k)
    /\ \E k \in DOMAIN out.previous.before :
          /\ WellFormedEntry(out.previous.before, k)
          /\ k \notin DOMAIN out.previous.ledger
    /\ out.previous.recent # {}
    /\ history = out.previous.ledger

\* C23: saving the ledger is atomic: at every point of
\* save_selected_collections, a crash or a failed write in the middle of it
\* included, the ledger file holds either the complete previous ledger or the
\* complete new one, never a partial or empty content.
C23_SaveAtomic ==
    (out.op = "recent" /\ out.saves # <<>>)
    => \/ file = out.file_before
       \/ file = [kind |-> "object", data |-> out.saves[1]]

\* The same for the saves in which opening and writing the file both succeed
\* or opening fails: it holds.
C23_SaveCompleteUnlessWriteFails ==
    (out.op = "recent" /\ out.saves # <<>> /\ out.io # "write_error")
    => \/ file = out.file_before
       \/ file = [kind |-> "object", data |-> out.saves[1]]

----------------------------------------------------------------------------
(* SpecActive: get_active_special_collections on sampled days and entries *)

\* the months and days of the month that SpecActive draws
SampleMonths == {1, 2, 3, 12}
SampleDays == {1, 15, 28, 29, 31}

\* the date strings of the entries: every "MM-DD" over the samples (some
\* name no day, as "02-31"), a string that is no date and a non-string
DateStrings ==
    {DateStr(m, d) : m \in SampleMonths, d \in SampleDays}
    \cup {DateStr(13, 1), NotDateStr}

\* the days the run may happen on, in a leap year and in another
Todays ==
    {[leap |-> l, m |-> m, d |-> d] : l \in BOOLEAN, m \in SampleMonths, d \in SampleDays}
    \ {t \in [leap : BOOLEAN, m : SampleMonths, d : SampleDays] :
          t.d > DaysInMonth(t.m, t.leap)}

\* one entry with every pair of dates
FullSpecials ==
    {Special(TRUE, SpecialKeys, s, e, Names(<<"S">>)) : s, e \in DateStrings}

\* entries that share titles, wrap around the year or are malformed
FewSpecials ==
    {Special(TRUE, SpecialKeys, DateStr(12, 15), DateStr(1, 15), Names(<<"S", "A">>)),
     Special(TRUE, SpecialKeys, DateStr(1, 1), DateStr(12, 31), Names(<<"A", "", "A">>)),
     Special(TRUE, SpecialKeys, DateStr(2, 28), DateStr(3, 1), Names(<<"B">>)),
     Special(TRUE, SpecialKeys, DateStr(1, 1), DateStr(12, 31), Names(<<"B", NonStr>>)),
     Special(TRUE, SpecialKeys, DateStr(1, 1), DateStr(12, 31), NotNames),
     Special(TRUE, {"collection_names"}, DateStr(1, 1), DateStr(12, 31), Names(<<"B">>)),
     Special(FALSE, {}, NotDateStr, NotDateStr, NotNames)}

InitActive ==
    /\ now = 0
    /\ today \in Todays
    /\ \E sc \in {<<x>> : x \in FullSpecials} \cup {<<x, y>> : x, y \in FewSpecials} :
          config = [BaseConfig EXCEPT !.special_collections = sc]
    /\ file = [kind |-> "missing", data |-> EmptyDict]
    /\ history = EmptyDict
    /\ pool = <<>>
    /\ pc = "active"
    /\ run = NoRun
    /\ written = {}
    /\ web = NoWeb
    /\ plex = NoPlex
    /\ out = [op |-> "none"]

\* one call of get_active_special_collections
ActiveCall ==
    /\ pc = "active"
    /\ out' = [op |-> "active",
               result |-> get_active_special_collections(config, today)]
    /\ UNCHANGED <<now, today, config, file, history, pool, pc, run, written, web, plex>>

NextActive == ActiveCall

SpecActive == InitActive /\ [][NextActive]_vars

\* the string names a day of the current year
CalendarDay(s, leap) ==
    s.isstr /\ s.m \in 1 .. 12 /\ s.d \in 1 .. DaysInMonth(s.m, leap)

\* the window of the claim: start <= today <= end, or, when start > end,
\* today >= start or today <= end
InWindow(start, end, day) ==
    \/ DateLE(start, end) /\ DateLE(start, day) /\ DateLE(day, end)
    \/ ~DateLE(start, end) /\ (DateLE(start, day) \/ DateLE(day, end))

\* the entries of the configuration are well-formed and their dates satisfy P
AllSpecials(P(_)) ==
    \A i \in 1 .. Len(config.special_collections) :
        LET special == config.special_collections[i]
        IN  SpecialIsValid(special) /\ P(special.start_date) /\ P(special.end_date)

\* the deduplicated, sorted union of the titles of the entries in their window
WindowTitles ==
    SortedList(UNION
        {Range(config.special_collections[i].collection_names.elems) \ {""} :
            i \in {j \in 1 .. Len(config.special_collections) :
                      InWindow(config.special_collections[j].start_date,
                               config.special_collections[j].end_date, today)}})

\* C7: for every day and every pair of start and end that are days of the
\* current year, get_active_special_collections returns the deduplicated
\* union of the titles of the definitions with start <= today <= end or,
\* when start > end, with today >= start or today <= end.
C7_ActiveExactlyInWindow ==
    LET ThisYear(s) == CalendarDay(s, today.leap)
    IN  (out.op = "active" /\ AllSpecials(ThisYear)) => out.result = WindowTitles

\* The same with 29 February left out of the starts and ends: it holds.
C7_ActiveInWindowExceptFeb29 ==
    LET Year1900(s) == CalendarDay(s, FALSE)
    IN  (out.op = "active" /\ AllSpecials(Year1900)) => out.result = WindowTitles

----------------------------------------------------------------------------
(* SpecFilter: filter_collections on sampled libraries and configurations *)

\* the collections a library is drawn from
CollectionSamples ==
    <<Collection("A", TRUE, 20), Collection("A", TRUE, 5),
      Collection("B", TRUE, 20), Collection("B", FALSE, 0),
      Collection("S", TRUE, 20), Collection("S", FALSE, 0),
      Collection("S ", TRUE, 20), Collection("", TRUE, 20)>>

\* the libraries of at most n collections; the order of a library does not
\* reach the result, which is drawn from the shuffled pool
Libraries(n) ==
    LET N == Len(CollectionSamples)
        Sorted(idx) == \A i \in 1 .. Len(idx) - 1 : idx[i] <= idx[i + 1]
        Indices == UNION {{idx \in [1 .. k -> 1 .. N] : Sorted(idx)} : k \in 0 .. n}
    IN  {[i \in 1 .. Len(idx) |-> CollectionSamples[idx[i]]] : idx \in Indices}

\* the day of the runs of SpecFilter and Spec
FilterToday == [leap |-> FALSE, m |-> 1, d |-> 15]

\* entries of special_collections: active on FilterToday, not active, and
\* with dates that do not parse
JanSpecial(names) ==
    Special(TRUE, SpecialKeys, DateStr(1, 1), DateStr(1, 31), Names(names))
MarSpecial(names) ==
    Special(TRUE, SpecialKeys, DateStr(3, 1), DateStr(3, 31), Names(names))
BadSpecial(names) ==
    Special(TRUE, SpecialKeys, DateStr(13, 1), DateStr(1, 31), Names(names))

SpecialsSamples ==
    {<<>>,
     <<JanSpecial(<<"S">>)>>,
     <<MarSpecial(<<"S">>)>>,
     <<BadSpecial(<<"S">>)>>,
     <<JanSpecial(<<"S ">>)>>,
     <<MarSpecial(<<"S ">>)>>,
     <<JanSpecial(<<"S">>), MarSpecial(<<"S", "B">>)>>}

ExclusionSamples == {{}, {"S "}}

RegexSamples ==
    {<<>>, <<Pattern("invalid", {}), Pattern("regex", {"B", "S "})>>}

\* the ledgers of SpecFilter: empty, or one entry written at time 0
FilterLedgers ==
    {EmptyDict,
     [k \in {[kind |-> "naive", t |-> 0]} |-> LedgerValue(TRUE, {"A", "S", "S "})]}

CategorySamples ==
    {<<>>,
     <<Category(TRUE, CategoryKeys, "c1", Num(1), {"A", "B"})>>,
     <<Category(TRUE, CategoryKeys, "c1", Num(1), {"A", "B"}),
       Category(TRUE, CategoryKeys, "c2", Num(2), {"B", "S"})>>}

\* the pin limit of a library as main passes it
PinLimit(cfg, library_name) ==
    LET v == IF library_name \in DOMAIN cfg.number_of_collections_to_pin
             THEN cfg.number_of_collections_to_pin[library_name]
             ELSE Num(0)
    IN  IF ~v.isnum \/ v.v < 0 THEN 0 ELSE v.v

InitFilter ==
    /\ now = 0
    /\ today = FilterToday
    /\ \E sc \in SpecialsSamples, ex \in ExclusionSamples, rx \in RegexSamples,
          cats \in CategorySamples, limit \in 1 .. MaxLimit :
          config = [BaseConfig EXCEPT
                       !.special_collections = sc,
                       !.exclusion_list = ex,
                       !.regex_exclusion_patterns = rx,
                       !.categories = [l \in {"Movies"} |-> cats],
                       !.number_of_collections_to_pin = [l \in {"Movies"} |-> Num(limit)]]
    /\ history \in FilterLedgers
    /\ file = [kind |-> "object", data |-> history]
    /\ pool \in Libraries(MaxPool)
    /\ pc = "filter"
    /\ run = NoRun
    /\ written = {}
    /\ web = NoWeb
    /\ plex = NoPlex
    /\ out = [op |-> "none"]

\* the shuffles of the lists that filter_collections shuffles in a call: the
\* eligible pool and, for the random fill, a part of it
ShufflesFor(cfg, all_collections_in_library, day, selected_collections_history, clock) ==
    Shuffles(Len(EligiblePool(cfg, all_collections_in_library,
                 get_active_special_collections(cfg, day),
                 get_recently_pinned_collections(
                     selected_collections_history, cfg, clock).recent_titles)))

\* one call of filter_collections as main makes it for the library "Movies"
FilterCall ==
    /\ pc = "filter"
    /\ \E perm1, perm2 \in ShufflesFor(config, pool, today, history, now) :
         \E active \in {get_active_special_collections(config, today)} :
         \E r \in {filter_collections(config, pool, active,
                                      PinLimit(config, "Movies"), "Movies",
                                      history, now, perm1, perm2)} :
             \E io \in IF r.saves # <<>> THEN IOOutcomes ELSE {"ok"} :
               /\ history' = r.selected_collections
               /\ file' = IF r.saves # <<>>
                          THEN save_selected_collections(file, r.saves[1], io)
                          ELSE file
               /\ out' = [op |-> "filter", active |-> active] @@ r
    /\ pc' = "filtered"
    /\ UNCHANGED <<now, today, config, pool, run, written, web, plex>>

NextFilter == FilterCall

SpecFilter == InitFilter /\ [][NextFilter]_vars

\* filter_collections has returned a list
Returned == out.op = "filter" /\ ~out.raised

\* C1: the list returned by filter_collections for a library has at most
\* library_pin_limit elements.
C1_AtMostPinLimit ==
    Returned => Len(out.result) <= PinLimit(config, "Movies")

\* a call that filled every slot from a pool with more eligible collections
\* than slots
C1_Witness ==
    /\ Returned
    /\ Len(out.result) = PinLimit(config, "Movies")
    /\ Len(out.eligible) > PinLimit(config, "Movies")
    /\ out.random_found # <<>>

\* C2: in every list returned by filter_collections the titles are pairwise
\* distinct, also for a pool in which two candidates carry the same title.
C2_TitlesDistinct ==
    Returned => \A i, j \in 1 .. Len(out.result) :
                    out.result[i].title = out.result[j].title => i = j

\* the title is explicitly excluded: an entry of exclusion_list is the title,
\* as written or stripped
ExplicitlyExcluded(title) ==
    \E n \in config.exclusion_list : n = title \/ Strip(n) = title

\* the title matches an exclusion pattern that compiles
PatternExcluded(title) ==
    \E i \in 1 .. Len(config.regex_exclusion_patterns) :
        /\ config.regex_exclusion_patterns[i].kind = "regex"
        /\ title \in config.regex_exclusion_patterns[i].matches

\* C4: a candidate whose title is in the active override set reaches the
\* eligible pool, whatever its item count (an unreadable one included) and
\* whatever the ledger holds, unless it is explicitly excluded or
\* pattern-excluded.
C4_ActiveOverrideExempt ==
    out.op = "filter"
    => \A i \in 1 .. Len(pool) :
          (/\ pool[i].title \in Range(out.active)
           /\ ~ExplicitlyExcluded(pool[i].title)
           /\ ~PatternExcluded(pool[i].title))
          => pool[i] \in Range(out.eligible)

\* an active override whose item count cannot be read and whose title was
\* pinned recently is in the eligible pool
C4_Witness ==
    /\ out.op = "filter"
    /\ \E i \in 1 .. Len(pool) :
          /\ pool[i].title \in Range(out.active)
          /\ ~pool[i].readable
          /\ pool[i].title \in out.recent_titles
          /\ pool[i] \in Range(out.eligible)

\* the entry of special_collections is an active definition today
DefinitionIsActive(special) ==
    /\ SpecialIsValid(special)
    /\ StrptimeParses(special.start_date)
    /\ StrptimeParses(special.end_date)
    /\ InWindow(special.start_date, special.end_date, today)

\* the title is a member of some override definition and of no active one
InactiveOverrideTitle(title) ==
    LET defs == config.special_collections
        MemberOf(special) ==
            /\ special.isdict
            /\ "collection_names" \in special.keys
            /\ special.collection_names.islist
            /\ title \in Range(special.collection_names.elems)
    IN  /\ \E i \in 1 .. Len(defs) : MemberOf(defs[i])
        /\ \A i \in 1 .. Len(defs) : MemberOf(defs[i]) => ~DefinitionIsActive(defs[i])

\* C5: a title that is a member of some override definition and of no
\* currently active one never appears in the eligible pool, hence never in
\* the result of filter_collections.
C5_InactiveOverrideExcluded ==
    out.op = "filter"
    => \A i \in 1 .. Len(pool) :
          InactiveOverrideTitle(pool[i].title)
          => /\ pool[i].title \notin TitlesOf(out.eligible)
             /\ pool[i].title \notin TitlesOf(out.result)

\* The same for the titles that carry no blank at either end: it holds.
C5_InactiveOverrideExcludedStripped ==
    out.op = "filter"
    => \A i \in 1 .. Len(pool) :
          (InactiveOverrideTitle(pool[i].title) /\ Strip(pool[i].title) = pool[i].title)
          => /\ pool[i].title \notin TitlesOf(out.eligible)
             /\ pool[i].title \notin TitlesOf(out.result)

\* C25: explicit exclusion and pattern exclusion take precedence over an
\* active override: a candidate whose title is in the explicit exclusion
\* list, or matches an exclusion pattern, is never in the result of
\* filter_collections even when its title is in the active override set.
C25_ExclusionBeatsOverride ==
    out.op = "filter"
    => \A i \in 1 .. Len(pool) :
          (pool[i].title \in config.exclusion_list \/ PatternExcluded(pool[i].title))
          => pool[i].title \notin TitlesOf(out.result)

\* The same for the titles that carry no blank at either end: it holds.
C25_ExclusionBeatsOverrideStripped ==
    out.op = "filter"
    => \A i \in 1 .. Len(pool) :
          (/\ pool[i].title \in config.exclusion_list \/ PatternExcluded(pool[i].title)
           /\ Strip(pool[i].title) = pool[i].title)
          => pool[i].title \notin TitlesOf(out.result)

\* the candidate is no active override, its item count cannot be read, and
\* no other filter of filter_collections discards it
UnreadableCandidate(collection) ==
    /\ ~collection.readable
    /\ collection.title # ""
    /\ collection.title \notin Range(out.active)
    /\ collection.title \notin out.titles_fully_excluded
    /\ ~PatternExcluded(collection.title)
    /\ collection.title \notin out.recent_titles

\* C20: a candidate that is not an active override and whose item count is
\* missing or cannot be read is kept in the eligible pool by
\* filter_collections.
C20_UnreadableCountKept ==
    out.op = "filter"
    => \A i \in 1 .. Len(pool) :
          UnreadableCandidate(pool[i]) => pool[i] \in Range(out.eligible)

\* C20 as the code has it: a candidate that is not an active override and
\* whose item count is missing or cannot be read is discarded by the
\* minimum-item-count filter and never reaches the eligible pool.
C20_UnreadableCountDiscarded ==
    out.op = "filter"
    => \A i \in 1 .. Len(pool) :
          (~pool[i].readable /\ pool[i].title \notin Range(out.active))
          => pool[i] \notin Range(out.eligible)

\* a library with a candidate whose count cannot be read and that no other
\* filter discards, next to a candidate that is eligible
C20_Witness ==
    /\ out.op = "filter"
    /\ out.eligible # <<>>
    /\ \E i \in 1 .. Len(pool) :
          /\ UnreadableCandidate(pool[i])
          /\ pool[i] \notin Range(out.eligible)

----------------------------------------------------------------------------
(* SpecCategory: filter_collections on the category configurations *)

\* the collections the libraries of SpecCategory are made of
CategoryCollections ==
    <<Collection("A", TRUE, 20), Collection("B", TRUE, 20),
      Collection("S", TRUE, 20)>>

\* the libraries of at most n collections of CategoryCollections
CategoryLibraries(n) ==
    LET N == Len(CategoryCollections)
        Sorted(idx) == \A i \in 1 .. Len(idx) - 1 : idx[i] <= idx[i + 1]
        Indices == UNION {{idx \in [1 .. k -> 1 .. N] : Sorted(idx)} : k \in 0 .. n}
    IN  {[i \in 1 .. Len(idx) |-> CategoryCollections[idx[i]]] : idx \in Indices}

\* the categories of a library: well-formed ones, two entries that carry the
\* same name, an entry with a pin_count of 0, and malformed entries (not an
\* object, no category_name, a pin_count that is no number) before a
\* well-formed one
CategoryConfigs ==
    CategorySamples \cup
    {<<Category(TRUE, CategoryKeys, "c1", Num(1), {"A", "B"}),
       Category(TRUE, CategoryKeys, "c1", Num(2), {"S"})>>,
     <<Category(TRUE, CategoryKeys, "c1", Num(2), {"A", "B"}),
       Category(TRUE, CategoryKeys, "c1", Num(1), {"B", "S"})>>,
     <<Category(TRUE, CategoryKeys, "c0", Num(0), {"A"}),
       Category(TRUE, CategoryKeys, "c1", Num(1), {"B"})>>,
     <<Category(FALSE, {}, "", NotNum, {}),
       Category(TRUE, CategoryKeys, "c1", Num(1), {"A", "B"})>>,
     <<Category(TRUE, {"pin_count", "collections"}, "", Num(1), {"A"}),
       Category(TRUE, CategoryKeys, "c1", Num(1), {"A", "B"})>>,
     <<Category(TRUE, CategoryKeys, "c2", NotNum, {"A"}),
       Category(TRUE, CategoryKeys, "c1", Num(1), {"A", "B"})>>}

\* the category modes of the configuration: quota mode, and lottery mode
\* with the two ends of the skip percentage
CategoryModes ==
    {[use_random_category_mode |-> FALSE, random_category_skip_percent |-> Num(70)],
     [use_random_category_mode |-> TRUE, random_category_skip_percent |-> Num(0)],
     [use_random_category_mode |-> TRUE, random_category_skip_percent |-> Num(100)]}

InitCategory ==
    /\ now = 0
    /\ today = FilterToday
    /\ \E sc \in {<<>>, <<JanSpecial(<<"S">>)>>, <<JanSpecial(<<"S", "B">>)>>},
          cats \in CategoryConfigs,
          mode \in CategoryModes, limit \in 1 .. MaxCategoryLimit :
          config = [BaseConfig EXCEPT
                       !.special_collections = sc,
                       !.categories = [l \in {"Movies"} |-> cats],
                       !.use_random_category_mode = mode.use_random_category_mode,
                       !.random_category_skip_percent = mode.random_category_skip_percent,
                       !.number_of_collections_to_pin = [l \in {"Movies"} |-> Num(limit)]]
    /\ history = EmptyDict
    /\ file = [kind |-> "object", data |-> history]
    /\ pool \in CategoryLibraries(MaxPool)
    /\ pc = "filter"
    /\ run = NoRun
    /\ written = {}
    /\ web = NoWeb
    /\ plex = NoPlex
    /\ out = [op |-> "none"]

SpecCategory == InitCategory /\ [][NextFilter]_vars

\* the entries of the categories of "Movies" that are objects
CategoryDefs ==
    LET cats == LibraryCategories(config, "Movies")
        IsDict(category_def) == category_def.isdict
    IN  SelectSeq(cats, IsDict)

\* the number of picks of the category tier made under the name of the
\* category among the titles it lists
PicksFor(category_def) ==
    Cardinality({k \in 1 .. Len(out.category_found_for) :
                    /\ out.category_found_for[k] = category_def.category_name
                    /\ out.category_found[k].title \in MemberTitles(category_def)})

\* C11: in the category tier the picks attributed to any one category never
\* exceed that category's configured pin_count, and the picks of all
\* categories together never exceed the slots left after the override tier.
C11_CategoryQuota ==
    Returned
    => /\ \A i \in 1 .. Len(CategoryDefs) :
             ("category_name" \in CategoryDefs[i].keys
              /\ "pin_count" \in CategoryDefs[i].keys)
             => PicksFor(CategoryDefs[i]) <= PinCount(CategoryDefs[i])
       /\ Len(out.category_found)
              <= PinLimit(config, "Movies") - Len(out.special_found)

\* The same for the configurations in which no two categories carry the same
\* name: it holds.
C11_CategoryQuotaDistinctNames ==
    (Returned
     /\ \A i, j \in 1 .. Len(CategoryDefs) :
           CategoryDefs[i].category_name = CategoryDefs[j].category_name => i = j)
    => /\ \A i \in 1 .. Len(CategoryDefs) :
             ("category_name" \in CategoryDefs[i].keys
              /\ "pin_count" \in CategoryDefs[i].keys)
             => PicksFor(CategoryDefs[i]) <= PinCount(CategoryDefs[i])
       /\ Len(out.category_found)
              <= PinLimit(config, "Movies") - Len(out.special_found)
\* the entry is a valid category: an object with a name, a pin_count above 0
\* and member titles
ValidCategory(category_def) ==
    /\ category_def.isdict
    /\ CategoryKeys \subseteq category_def.keys
    /\ category_def.pin_count.isnum
    /\ category_def.pin_count.v > 0

\* the category received at least one pick in the category tier
Served(category_def) == PicksFor(category_def) > 0

\* C12: in quota mode the member titles of every category that received at
\* least one pick in the category tier are withheld from the random tier: no
\* random-tier pick has a title that belongs to a served category.
C12_ServedWithheldFromRandom ==
    (Returned /\ ~config.use_random_category_mode)
    => \A i \in 1 .. Len(CategoryDefs) :
          (ValidCategory(CategoryDefs[i]) /\ Served(CategoryDefs[i]))
          => TitlesOf(out.random_found) \cap MemberTitles(CategoryDefs[i]) = {}

\* C13: in lottery mode the member titles of every valid category that did
\* not award picks (every valid category when the skip percentage is 100, as
\* the category step is then skipped) never appear among the random-tier
\* picks.
C13_LotteryWithheldFromRandom ==
    (Returned /\ config.use_random_category_mode)
    => \A i \in 1 .. Len(CategoryDefs) :
          (/\ ValidCategory(CategoryDefs[i])
           /\ \/ config.random_category_skip_percent = Num(100)
              \/ ~Served(CategoryDefs[i]))
          => TitlesOf(out.random_found) \cap MemberTitles(CategoryDefs[i]) = {}
\* the smaller of two numbers
Min(a, b) == IF a < b THEN a ELSE b

\* the titles of the eligible pool that are in the active override set
EligibleActiveTitles == TitlesOf(out.eligible) \cap Range(out.active)

\* C14: the override tier selects exactly min(library_pin_limit, k)
\* candidates, k being the number of titles of the eligible pool that are in
\* the active override set; no category or random pick is made while an
\* eligible active-override title is left unselected.
C14_OverrideTierCount ==
    Returned
    => /\ Len(out.special_found)
              = Min(PinLimit(config, "Movies"), Cardinality(EligibleActiveTitles))
       /\ (out.category_found # <<>> \/ out.random_found # <<>>)
              => EligibleActiveTitles \subseteq TitlesOf(out.special_found)

\* two active override titles are eligible and the limit lets one through
C14_Witness ==
    /\ Returned
    /\ Cardinality(EligibleActiveTitles) > PinLimit(config, "Movies")
    /\ Len(out.special_found) = PinLimit(config, "Movies")
    /\ out.category_found = <<>>
    /\ out.random_found = <<>>
\* the slots left to the random tier
RandomSlots ==
    PinLimit(config, "Movies") - Len(out.special_found) - Len(out.category_found)

\* C15: the random tier picks exactly min(remaining slots, size of the pool
\* left to it) candidates, also when that pool is smaller than the remaining
\* slots; with no categories configured the result has exactly
\* min(library_pin_limit, size of the eligible pool) elements.
C15_RandomTierCount ==
    Returned
    => /\ Len(out.random_found) = Min(RandomSlots, Len(out.random_pool))
       /\ LibraryCategories(config, "Movies") = <<>>
              => Len(out.result)
                     = Min(PinLimit(config, "Movies"), Len(out.eligible))

\* the pool left to the random tier is not empty and smaller than the slots
\* left, and the tier takes all of it
C15_Witness ==
    /\ Returned
    /\ out.random_pool # <<>>
    /\ Len(out.random_pool) < RandomSlots
    /\ Len(out.random_found) = Len(out.random_pool)
\* C16: the list returned by filter_collections is ordered by tier: every
\* override-tier pick precedes every category-tier pick, which precedes every
\* random-tier pick.
C16_OrderedByTier ==
    Returned
    => \E a, b \in 0 .. Len(out.result) :
          /\ a <= b
          /\ SubSeq(out.result, 1, a) = out.special_found
          /\ SubSeq(out.result, a + 1, b) = out.category_found
          /\ SubSeq(out.result, b + 1, Len(out.result)) = out.random_found

\* a result with a pick of each tier
C16_Witness ==
    /\ Returned
    /\ out.special_found # <<>>
    /\ out.category_found # <<>>
    /\ out.random_found # <<>>
    /\ out.result[1] = out.special_found[1]
    /\ out.result[Len(out.result)] = out.random_found[Len(out.random_found)]
\* a valid category lists a title of the eligible pool that the override
\* tier leaves to it, and the override tier leaves a slot
CategoryHasWork ==
    /\ Len(out.special_found) < PinLimit(config, "Movies")
    /\ \E i \in 1 .. Len(CategoryDefs), k \in 1 .. Len(out.eligible) :
          /\ ValidCategory(CategoryDefs[i])
          /\ out.eligible[k].title \in MemberTitles(CategoryDefs[i])
          /\ out.eligible[k].title \notin Range(out.active)

\* C19: a malformed category definition (an entry that is not a mapping, a
\* missing key such as category_name or pin_count, a wrong field type) never
\* aborts the run: the offending entry is skipped and every remaining
\* definition is still processed by the category tier of filter_collections.
C19_MalformedCategoryNeverAborts ==
    out.op = "filter"
    => /\ ~out.raised
       /\ CategoryHasWork => out.category_found # <<>>

\* The same for the configurations whose category entries are all well
\* formed: it holds.
C19_WellFormedCategoriesProcessed ==
    (out.op = "filter"
     /\ ~CategoryConfigRaises(LibraryCategories(config, "Movies")))
    => /\ ~out.raised
       /\ CategoryHasWork => out.category_found # <<>>

\* the positions of the valid categories of "Movies" that list the title
ValidCategoriesOf(title) ==
    LET cats == LibraryCategories(config, "Movies")
    IN  {k \in 1 .. Len(cats) :
            ValidCategory(cats[k]) /\ title \in MemberTitles(cats[k])}

\* the smallest number of a non-empty set of numbers
Least(S) == CHOOSE k \in S : \A j \in S : k <= j

RECURSIVE QuotaWalk(_, _, _)
\* The category tier as C26 words it, from collection i of the pool on:
\* ref.slots are the slots that remain, ref.left[k] the quota category k has
\* left, ref.charged the category each collection was charged to (0: none).
QuotaWalk(category_pool, i, ref) ==
    IF i > Len(category_pool)
    THEN ref
    ELSE LET with_quota == {k \in ValidCategoriesOf(category_pool[i].title) :
                               ref.left[k] > 0}
         IN  IF ref.slots > 0 /\ with_quota # {}
             THEN QuotaWalk(category_pool, i + 1,
                      [slots |-> ref.slots - 1,
                       left |-> [ref.left EXCEPT ![Least(with_quota)] = @ - 1],
                       charged |-> Append(ref.charged, Least(with_quota))])
             ELSE QuotaWalk(category_pool, i + 1,
                      [ref EXCEPT !.charged = Append(@, 0)])

\* the category tier of the last call as C26 words it
QuotaReference ==
    LET cats == LibraryCategories(config, "Movies")
    IN  QuotaWalk(out.category_pool, 1,
            [slots |-> PinLimit(config, "Movies") - Len(out.special_found),
             left |-> [k \in 1 .. Len(cats) |-> PinCount(cats[k])],
             charged |-> <<>>])

\* the call ran the category tier in quota mode
QuotaTierRan ==
    /\ Returned
    /\ ~config.use_random_category_mode
    /\ Len(out.category_charged) = Len(out.category_pool)

\* the category tier took collection p of its pool as C26 has it
PickedAsWorded(p) ==
    LET cats == LibraryCategories(config, "Movies")
        k == QuotaReference.charged[p]
    IN  IF k = 0
        THEN out.category_charged[p] = NotPicked
        ELSE out.category_charged[p] = cats[k].category_name

\* C26: in the quota-mode category tier, a candidate whose title belongs to
\* several valid categories is picked whenever slots remain and at least one
\* of those categories still has quota left; the pick is charged to exactly
\* one category (the first of its categories with quota left), decrementing
\* that category's counter and the global slot count by one each.
C26_SharedTitleCharged ==
    QuotaTierRan
    => /\ \A p \in 1 .. Len(out.category_pool) :
             Cardinality(ValidCategoriesOf(out.category_pool[p].title)) > 1
             => PickedAsWorded(p)
       /\ Len(out.category_found)
              = Cardinality({p \in 1 .. Len(out.category_pool) :
                                out.category_charged[p] # NotPicked})

\* The same for the configurations in which no two categories carry the same
\* name: it holds.
C26_SharedTitleChargedDistinctNames ==
    (QuotaTierRan
     /\ \A i, j \in 1 .. Len(CategoryDefs) :
           CategoryDefs[i].category_name = CategoryDefs[j].category_name => i = j)
    => /\ \A p \in 1 .. Len(out.category_pool) :
             Cardinality(ValidCategoriesOf(out.category_pool[p].title)) > 1
             => PickedAsWorded(p)
       /\ Len(out.category_found)
              = Cardinality({p \in 1 .. Len(out.category_pool) :
                                out.category_charged[p] # NotPicked})

\* a title of two categories was charged to the second, the first having no
\* quota left
C26_SharedWitness ==
    /\ QuotaTierRan
    /\ \E p \in 1 .. Len(out.category_pool) :
          /\ Cardinality(ValidCategoriesOf(out.category_pool[p].title)) > 1
          /\ QuotaReference.charged[p] = 2
          /\ out.category_charged[p] = "c2"

----------------------------------------------------------------------------
(* Spec: run_continuously, the runs of main one after the other *)

\* the libraries of the runs and what Plex holds in each
MainLibraries == <<"Movies", "TV">>

MainCatalog(library_name) ==
    CASE library_name = "Movies"
           -> <<Collection("A", TRUE, 20), Collection("S", TRUE, 20)>>
      [] library_name = "TV"
           -> <<Collection("B", TRUE, 20), Collection("S ", TRUE, 20)>>
      [] library_name = "Films"
           -> <<Collection("F", TRUE, 20), Collection("G", TRUE, 20)>>
      [] library_name = "Shows"
           -> <<Collection("H", TRUE, 20)>>
      [] OTHER -> <<>>

\* the configurations a run may find in config.json, which is read again at
\* every run
MainConfigs ==
    {[BaseConfig EXCEPT
         !.repeat_block_hours = rbh,
         !.special_collections = sc,
         !.library_names = MainLibraries,
         !.number_of_collections_to_pin = [l \in Range(MainLibraries) |-> Num(1)]] :
     rbh \in {Num(1), Num(2)},
     sc \in {<<>>, <<JanSpecial(<<"S">>)>>, <<JanSpecial(<<"S ">>)>>}}
    \cup
    {[BaseConfig EXCEPT
         !.library_names = MainLibraries,
         !.number_of_collections_to_pin = [l \in Range(MainLibraries) |-> Num(1)],
         !.categories = [l \in {"TV"} |-> <<Category(FALSE, {}, "", NotNum, {})>>]]}

\* The ledger file: "missing" (no file), "empty" (no bytes), "garbage" (no
\* JSON), "partial" (a dump that broke off), "nonobject" (JSON that is no
\* object; data is the value json.load gives) and "object" (data is the
\* ledger).
LedgerFile(kind, data) == [kind |-> kind, data |-> data]

\* the files a first run may find
InitialFiles ==
    {LedgerFile("missing", EmptyDict), LedgerFile("empty", EmptyDict),
     LedgerFile("garbage", EmptyDict), LedgerFile("nonobject", <<"A">>)}

\* load_selected_collections without the isinstance check
load_selected_collections_AnyJson(f) ==
    IF f.kind \in {"object", "nonobject"} THEN f.data ELSE EmptyDict

\* load_selected_collections: the object in the file, and an empty ledger for
\* a missing file, a file that does not decode and a file that holds no object
load_selected_collections(f) ==
    IF f.kind = "object" THEN f.data ELSE EmptyDict

\* the timestamps that the ledger holds after a step and did not hold
\* before it
NewKeys(ledger_before, ledger_after) ==
    DOMAIN ledger_after \ DOMAIN ledger_before

\* pin_collections returning every title it was given
pin_collections_AllGiven(collections_to_pin, pinned_ok) ==
    {collections_to_pin[i].title : i \in 1 .. Len(collections_to_pin)}

\* pin_collections: the titles of the collections whose promotion succeeded;
\* pinned_ok are the positions at which neither promoteHome nor
\* promoteShared raised
pin_collections(collections_to_pin, pinned_ok) ==
    {collections_to_pin[i].title : i \in pinned_ok}

\* the entry main adds to the ledger at the end of a run: the titles pinned
\* in the run that are no member of any override definition
non_special_pins_for_history(cfg, all_newly_pinned_titles_this_run) ==
    all_newly_pinned_titles_this_run \ get_all_special_collection_names(cfg)

\* what Plex holds of a collection: whether it is promoted to the home
\* screens, and its labels
Hub(promoted, labels) == [promoted |-> promoted, labels |-> labels]

\* str.lower on the labels of the model
Lower(label) ==
    CASE label = "Collexions" -> "collexions"
      [] label = "Other" -> "other"
      [] OTHER -> label

\* the test "hub.promoteHome" of unpin_collections: promoteHome is the method
\* that pin_collections calls to promote, and a method is truthy whatever the
\* promotion of the collection
PromoteHomeIsSet(hub) == TRUE

\* label_to_check.lower() in current_labels
HasLabel(hub, label_to_check) ==
    Lower(label_to_check) \in {Lower(l) : l \in hub.labels}

\* what Plex does with the calls made for one collection: it serves all of
\* them, removeLabel raises, demoteHome raises, or visibility raises (which
\* leaves the collection as two raising calls do)
UnpinOutcomes == {"ok", "remove_error", "demote_error", "visibility_error"}

\* the body of the loop of unpin_collections that removes the label and leaves
\* the promotion
UnpinOne_LabelOnly(coll_title, hub, cfg, outcome) ==
    IF outcome = "visibility_error" \/ ~PromoteHomeIsSet(hub)
    THEN hub
    ELSE IF ~HasLabel(hub, cfg.collexions_label)
    THEN hub
    ELSE IF coll_title \in cfg.exclusion_list
    THEN hub
    ELSE Hub(hub.promoted,
             IF outcome = "remove_error" THEN hub.labels
             ELSE {l \in hub.labels : Lower(l) # Lower(cfg.collexions_label)})

\* the body of the loop of unpin_collections over the collections of a
\* library: the collection after the round
UnpinOne(coll_title, hub, cfg, outcome) ==
    IF outcome = "visibility_error" \/ ~PromoteHomeIsSet(hub)
    THEN hub
    ELSE IF ~HasLabel(hub, cfg.collexions_label)
    THEN hub
    ELSE IF coll_title \in cfg.exclusion_list
    THEN hub
    ELSE Hub(IF outcome = "demote_error" THEN hub.promoted ELSE FALSE,
             IF outcome = "remove_error" THEN hub.labels
             ELSE {l \in hub.labels : Lower(l) # Lower(cfg.collexions_label)})

\* the libraries of a configuration in which a title is
LibrariesOf(coll_title, cfg) ==
    {l \in Range(cfg.library_names) : coll_title \in TitlesOf(MainCatalog(l))}

\* unpin_collections: Plex after the pass; listed are the libraries whose
\* collections Plex listed, outcome says for each collection how Plex took
\* the calls
unpin_collections(plex_state, cfg, listed, outcome) ==
    IF cfg.collexions_label = ""
    THEN plex_state
    ELSE [t \in DOMAIN plex_state |->
             IF LibrariesOf(t, cfg) \cap listed # {}
             THEN UnpinOne(t, plex_state[t], cfg, outcome[t])
             ELSE plex_state[t]]

\* the collections of pin_collections in Plex: promoted are the titles whose
\* promoteHome succeeded, labelled those whose addLabel succeeded
PinnedInPlex(plex_state, cfg, promoted, labelled) ==
    [t \in DOMAIN plex_state |->
        Hub(plex_state[t].promoted \/ t \in promoted,
            IF t \in labelled /\ cfg.collexions_label # ""
            THEN plex_state[t].labels \cup {cfg.collexions_label}
            ELSE plex_state[t].labels)]

\* the libraries of a configuration that hold a collection whose state in
\* Plex is followed
Followed(plex_state, cfg) ==
    {l \in Range(cfg.library_names) :
        TitlesOf(MainCatalog(l)) \cap DOMAIN plex_state # {}}

Init ==
    /\ now = 0
    /\ today = FilterToday
    /\ config = BaseConfig
    /\ file \in InitialFiles
    /\ history = EmptyDict
    /\ pool = <<>>
    /\ pc = "idle"
    /\ run = NoRun
    /\ written = {}
    /\ web = NoWeb
    /\ plex = NoPlex
    /\ out = [op |-> "none"]

\* A round of run_continuously whose first look at config.json finds JSON
\* that is no object: temp_config.get raises (line 1011), main is not called
\* and the handler of line 1027 takes over. The log call of line 1047 then
\* reads pin_interval, which no round has assigned when this is the first:
\* the UnboundLocalError leaves run_continuously.
ConfigNotObject ==
    /\ pc = "idle"
    /\ IF run.pin_interval_bound
       THEN pc' = "sleeping" /\ UNCHANGED out
       ELSE pc' = "ended" /\ out' = [op |-> "ended", by |-> "UnboundLocalError"]
    /\ UNCHANGED <<now, today, config, file, history, pool, run, written, web, plex>>

\* a KeyboardInterrupt reaches run_continuously during main or during the
\* sleep: the loop is left
Interrupt ==
    /\ pc \in {"libraries", "sleeping"}
    /\ pc' = "ended"
    /\ out' = [op |-> "ended", by |-> "KeyboardInterrupt"]
    /\ UNCHANGED <<now, today, config, file, history, pool, run, written, web, plex>>

\* main up to the loop over the libraries: the start time is taken, the
\* configuration is read, Plex is reached, the ledger is loaded and
\* unpin_collections goes over the libraries
StartRunWith(configs) ==
    /\ pc = "idle"
    /\ \E outcome \in {"ok", "config_error", "plex_error"}, cfg \in configs :
         /\ config' = IF outcome = "config_error" THEN config ELSE cfg
         /\ IF outcome = "ok"
            THEN \E listed \in SUBSET Followed(plex, cfg),
                    unpin_outcome \in [DOMAIN plex -> UnpinOutcomes] :
                   /\ plex' = unpin_collections(plex, cfg, listed, unpin_outcome)
                   /\ out' = [op |-> "unpin", id |-> run.id + 1, before |-> plex,
                              listed |-> listed, outcome |-> unpin_outcome]
            ELSE UNCHANGED <<plex, out>>
         /\ history' = IF outcome = "ok" THEN load_selected_collections(file)
                       ELSE history
         /\ pc' = IF outcome = "ok" THEN "libraries" ELSE "sleeping"
         /\ run' = [id |-> run.id + 1, run_start_time |-> now, lib |-> 1,
                    failed |-> IF outcome = "ok" THEN "none" ELSE outcome,
                    pin_interval_bound |-> TRUE,
                    pinned_by_last_run |-> run.all_newly_pinned_titles_this_run,
                    all_newly_pinned_titles_this_run |-> {},
                    special_titles_selected |-> {},
                    other_titles_selected |-> {}, other_titles_pinned |-> {},
                    other_titles_failed |-> {}, entries_added |-> 0,
                    entry_added_early |-> FALSE, loaded_from |-> file.kind]
    /\ UNCHANGED <<now, today, file, pool, written, web>>

\* main started by run_continuously, with config.json as it is at that time
StartRun == StartRunWith(MainConfigs)

\* the clock passes an hour while main works
Tick ==
    /\ pc = "libraries"
    /\ now < MaxClock
    /\ now' = now + 1
    /\ UNCHANGED <<today, config, file, history, pool, pc, run, written, out, web, plex>>

\* one round of the loop over library_names: the library is skipped, or its
\* collections are fetched, filtered and pinned
ProcessLibrary ==
    /\ pc = "libraries"
    /\ run.lib <= Len(config.library_names)
    /\ LET library_name == config.library_names[run.lib]
           pin_limit == PinLimit(config, library_name)
       IN  \E all_colls_in_lib \in {MainCatalog(library_name), <<>>} :
             IF pin_limit = 0 \/ all_colls_in_lib = <<>>
             THEN /\ run' = [run EXCEPT !.lib = @ + 1]
                  /\ UNCHANGED <<file, history, pool, pc, out, plex>>
             ELSE \E perm1, perm2 \in ShufflesFor(config, all_colls_in_lib,
                                                  today, history, now) :
                    \E active_specials \in {get_active_special_collections(config, today)} :
                    \E r \in {filter_collections(config, all_colls_in_lib,
                                                 active_specials, pin_limit,
                                                 library_name, history, now,
                                                 perm1, perm2)} :
                        \E io \in IF r.saves # <<>> THEN IOOutcomes ELSE {"ok"},
                           pinned_ok \in SUBSET (1 .. Len(r.result)) :
                          \E home_only \in SUBSET {i \in 1 .. Len(r.result) \ pinned_ok :
                                                     r.result[i].title \in DOMAIN plex},
                             labelled_ok \in SUBSET {i \in pinned_ok :
                                                     r.result[i].title \in DOMAIN plex} :
                          /\ plex' = PinnedInPlex(plex, config,
                                        {r.result[i].title : i \in pinned_ok \cup home_only},
                                        {r.result[i].title : i \in labelled_ok})
                          /\ history' = r.selected_collections
                          /\ file' = IF r.saves # <<>>
                                     THEN save_selected_collections(file, r.saves[1], io)
                                     ELSE file
                          /\ pool' = all_colls_in_lib
                          /\ pc' = IF r.raised THEN "sleeping" ELSE "libraries"
                          /\ run' = [run EXCEPT
                                 !.lib = @ + 1,
                                 !.failed = IF r.raised THEN "exception" ELSE @,
                                 !.all_newly_pinned_titles_this_run =
                                     @ \cup pin_collections(r.result, pinned_ok),
                                 !.special_titles_selected =
                                     @ \cup TitlesOf(r.special_found),
                                 !.other_titles_selected =
                                     @ \cup TitlesOf(r.category_found)
                                       \cup TitlesOf(r.random_found),
                                 !.other_titles_pinned =
                                     @ \cup {r.result[i].title : i \in
                                         {j \in pinned_ok : j > Len(r.special_found)}},
                                 !.other_titles_failed =
                                     @ \cup {r.result[i].title : i \in
                                         {j \in 1 .. Len(r.result) \ pinned_ok :
                                             j > Len(r.special_found)}},
                                 !.entries_added =
                                     @ + Cardinality(NewKeys(history, history')),
                                 !.entry_added_early =
                                     \/ @
                                     \/ NewKeys(history, history') # {}
                                     \/ NewKeys(history, file'.data)
                                            \ DOMAIN file.data # {}]
                          /\ out' = [op |-> "filter", active |-> active_specials,
                                     id |-> run.id, at |-> now,
                                     run_start_time |-> run.run_start_time,
                                     library_name |-> library_name,
                                     before |-> history] @@ r
    /\ UNCHANGED <<now, today, config, written, web>>

\* the end of main: the ledger gets the entry of this run and is saved
FinishRun ==
    /\ pc = "libraries"
    /\ run.lib > Len(config.library_names)
    /\ LET history_entry ==
               non_special_pins_for_history(config,
                   run.all_newly_pinned_titles_this_run)
           current_timestamp_iso == [kind |-> "naive", t |-> now]
           updated == [k \in DOMAIN history \cup {current_timestamp_iso} |->
                          IF k = current_timestamp_iso
                          THEN LedgerValue(TRUE, history_entry)
                          ELSE history[k]]
       IN  IF history_entry # {}
           THEN \E io \in IOOutcomes :
                  /\ history' = updated
                  /\ file' = save_selected_collections(file, updated, io)
                  /\ written' = IF io = "ok"
                                THEN written \cup
                                     {[id |-> run.id, t |-> now,
                                       titles |-> history_entry]}
                                ELSE written
                  /\ out' = [op |-> "finish", id |-> run.id, updated |-> TRUE,
                             history_entry |-> history_entry,
                             loaded_from |-> run.loaded_from,
                             special_titles_selected |-> run.special_titles_selected,
                             io |-> io]
                  /\ run' = [run EXCEPT !.entries_added =
                                 @ + Cardinality(NewKeys(history, history'))]
           ELSE /\ out' = [op |-> "finish", id |-> run.id, updated |-> FALSE,
                           history_entry |-> {},
                           loaded_from |-> run.loaded_from,
                           special_titles_selected |-> run.special_titles_selected,
                           io |-> "ok"]
                /\ UNCHANGED <<file, history, written, run, web, plex>>
    /\ pc' = "sleeping"
    /\ UNCHANGED <<now, today, config, pool, web, plex>>

\* run_continuously sleeps until the next run
Sleep ==
    /\ pc = "sleeping"
    /\ now < MaxClock
    /\ \E hours \in 1 .. MaxClock - now : now' = now + hours
    /\ pc' = "idle"
    /\ UNCHANGED <<today, config, file, history, pool, run, written, out, web, plex>>

Next ==
    \/ ConfigNotObject
    \/ StartRun
    \/ Tick
    \/ ProcessLibrary
    \/ FinishRun
    \/ Sleep
    \/ Interrupt

Spec == Init /\ [][Next]_vars

\* a call of filter_collections made by the current run
FilteredInRun == out.op = "filter" /\ out.id = run.id /\ ~out.raised

\* C3: once a run has recorded a non-override title T in the ledger with
\* timestamp t, no later run whose start time is within repeat_block_hours of
\* t selects T in any library, unless T is an active override at that later
\* run.
C3_NoReselectionWithinWindowOfRunStart ==
    FilteredInRun
    => \A e \in written :
          (/\ e.id < out.id
           /\ config.repeat_block_hours.isnum
           /\ out.run_start_time - e.t <= config.repeat_block_hours.v)
          => \A T \in e.titles :
                T \in TitlesOf(out.result) => T \in Range(out.active)

\* C3 as the code has it: once a run has recorded a title T with timestamp t,
\* a later run that holds that entry in its ledger does not select T in a
\* call of filter_collections made within repeat_block_hours of t (12 hours
\* when the configured value is no positive number), unless T is an active
\* override at that later run.
C3_NoReselectionWithinWindowOfCall ==
    FilteredInRun
    => \A e \in written :
          (/\ e.id < out.id
           /\ [kind |-> "naive", t |-> e.t] \in DOMAIN out.before
           /\ out.at - e.t <= RepeatBlockHours(config))
          => \A T \in e.titles :
                T \in TitlesOf(out.result) => T \in Range(out.active)

\* a later run filters a library that holds a title recorded within the
\* window, and selects another one
C3_Witness ==
    /\ FilteredInRun
    /\ out.result # <<>>
    /\ \E e \in written :
          /\ e.id < out.id
          /\ [kind |-> "naive", t |-> e.t] \in DOMAIN out.before
          /\ out.at - e.t <= RepeatBlockHours(config)
          /\ \E T \in e.titles :
                /\ T \in TitlesOf(pool)
                /\ T \notin Range(out.active)
                /\ T \notin TitlesOf(out.result)

\* C6: no ledger entry written by main contains a title that was selected
\* through the override tier in the run that wrote it.
C6_NoOverrideTitleInEntry ==
    (out.op = "finish" /\ out.updated)
    => out.history_entry \cap out.special_titles_selected = {}

\* The same for the titles that carry no blank at either end: it holds.
C6_NoOverrideTitleInEntryStripped ==
    (out.op = "finish" /\ out.updated)
    => \A T \in out.history_entry \cap out.special_titles_selected :
          Strip(T) # T

\* a run that pinned a title selected through the override tier and a title
\* selected otherwise, and whose entry holds the second only
C6_StrippedWitness ==
    /\ out.op = "finish"
    /\ out.updated
    /\ out.special_titles_selected # {}
    /\ out.history_entry \cap out.special_titles_selected = {}

\* C17: in one run of main the ledger receives at most one new entry; it is
\* added and saved only after every library has been processed, and only
\* when at least one non-override title was selected. A run that selects
\* nothing, or only override titles, adds no entry.
C17_OneEntryAtTheEnd ==
    /\ run.entries_added <= 1
    /\ ~run.entry_added_early
    /\ run.entries_added > 0 => run.other_titles_selected # {}

\* The same with the entries left out that hold an override-tier title with
\* a blank at either end: it holds.
C17_OneEntryAtTheEndStripped ==
    /\ run.entries_added <= 1
    /\ ~run.entry_added_early
    /\ run.entries_added > 0
           => \/ run.other_titles_selected # {}
              \/ \E T \in run.special_titles_selected : Strip(T) # T

\* the ledger file holds no ledger
Unreadable(kind) == kind \in {"missing", "empty", "garbage", "partial", "nonobject"}

\* C18: load_selected_collections returns an empty ledger, without raising,
\* when the ledger file is missing, empty, not valid JSON, or valid JSON that
\* is not an object; the next successful save then overwrites the corrupt
\* content.
C18_CorruptFileLoadsEmpty ==
    /\ (pc = "libraries" /\ run.lib = 1 /\ Unreadable(file.kind))
           => history = EmptyDict
    /\ (out.op = "finish" /\ out.updated /\ out.io = "ok")
           => file = LedgerFile("object", history)

\* a run that loaded a file holding JSON that is no object has saved its
\* entry over it
C18_Witness ==
    /\ out.op = "finish"
    /\ out.updated
    /\ out.io = "ok"
    /\ out.loaded_from = "nonobject"
    /\ file.kind = "object"
    /\ DOMAIN file.data # {}

----------------------------------------------------------------------------
(* SpecRegex: is_regex_excluded on every short list of patterns *)

\* the lists of SpecRegex hold at most this many patterns
MaxPatterns == 3

\* the patterns the lists are made of
PatternSamples ==
    {Pattern("regex", {"A"}), Pattern("regex", {"B", "S "}),
     Pattern("invalid", {}), Pattern("overflow", {}),
     Pattern("empty", {}), Pattern("nonstr", {})}

\* the lists of at most n patterns
PatternLists(n) == UNION {[1 .. k -> PatternSamples] : k \in 0 .. n}

InitRegex ==
    /\ now = 0
    /\ today = NoDay
    /\ \E rx \in PatternLists(MaxPatterns) :
          config = [BaseConfig EXCEPT !.regex_exclusion_patterns = rx]
    /\ file = LedgerFile("missing", EmptyDict)
    /\ history = EmptyDict
    /\ pool = <<>>
    /\ pc = "regex"
    /\ run = NoRun
    /\ written = {}
    /\ web = NoWeb
    /\ plex = NoPlex
    /\ out = [op |-> "none"]

\* one call of is_regex_excluded, as filter_collections makes it for a title
RegexCall ==
    /\ pc = "regex"
    /\ \E title \in Titles :
          out' = [op |-> "regex", title |-> title,
                  result |-> is_regex_excluded(title, config.regex_exclusion_patterns)]
    /\ UNCHANGED <<now, today, config, file, history, pool, pc, run, written, web, plex>>

NextRegex == RegexCall

SpecRegex == InitRegex /\ [][NextRegex]_vars

\* the pattern fails to compile
FailsToCompile(pattern) == pattern.kind \in {"invalid", "overflow"}

\* the result computed over the patterns that compile alone
MatchesValidPattern(title, patterns) ==
    \E i \in 1 .. Len(patterns) :
        patterns[i].kind = "regex" /\ title \in patterns[i].matches

\* C21: in is_regex_excluded a pattern that fails to compile is treated as
\* non-matching and skipped: the result for a title equals the result
\* computed over the valid patterns alone, so an invalid pattern neither
\* excludes the title nor hides a match of a valid pattern placed after it.
C21_InvalidPatternSkipped ==
    out.op = "regex"
    => out.result = MatchesValidPattern(out.title, config.regex_exclusion_patterns)

\* The same for the lists whose patterns fail to compile with re.error only:
\* it holds.
C21_ReErrorPatternSkipped ==
    (out.op = "regex"
     /\ \A i \in 1 .. Len(config.regex_exclusion_patterns) :
           config.regex_exclusion_patterns[i].kind # "overflow")
    => out.result = MatchesValidPattern(out.title, config.regex_exclusion_patterns)

\* the run has ended with an entry added to the ledger
EntryWritten == out.op = "finish" /\ out.id = run.id /\ out.updated

C28_LoopEndsOnlyOnInterrupt ==
    /\ pc = "ended" => out.by \in {"KeyboardInterrupt", "SystemExit"}
    /\ run.failed # "none" => pc \in {"sleeping", "idle", "ended"}

\* The same for the rounds after the loop has assigned pin_interval, that is
\* once a round has found a readable config.json or none: it holds.
C28_LoopEndsOnlyOnInterruptOnceBound ==
    /\ (pc = "ended" /\ run.pin_interval_bound)
           => out.by \in {"KeyboardInterrupt", "SystemExit"}
    /\ run.failed # "none" => pc \in {"sleeping", "idle", "ended"}

----------------------------------------------------------------------------
(* SpecWeb: the start and stop requests of the web UI (src/run.py) *)

InitWeb ==
    /\ now = 0
    /\ today = NoDay
    /\ config = BaseConfig
    /\ file = LedgerFile("missing", EmptyDict)
    /\ history = EmptyDict
    /\ pool = <<>>
    /\ pc = "web"
    /\ run = NoRun
    /\ written = {}
    /\ web = NoWeb
    /\ plex = NoPlex
    /\ out = [op |-> "none"]

\* is_script_running: some process runs ColleXions.py
is_script_running(procs) == procs # {}

\* another handler is inside start_script
OtherStarting(h) ==
    \E g \in Handlers \ {h} : web.handler[g] \in {"popen", "confirm"}

\* start_route calls start_script, which first asks is_script_running: it
\* returns True when the script runs and goes on to launch it otherwise
StartRequest(h) ==
    /\ pc = "web"
    /\ web.handler[h] = "idle"
    /\ IF is_script_running(web.procs)
       THEN /\ out' = [op |-> "start", handler |-> h, result |-> TRUE,
                       launched |-> FALSE]
            /\ UNCHANGED web
       ELSE /\ web' = [web EXCEPT !.handler[h] = "popen",
                                  !.overlapped = @ \/ OtherStarting(h)]
            /\ UNCHANGED out
    /\ UNCHANGED <<now, today, config, file, history, pool, pc, run, written, plex>>

\* start_script makes the directories and launches the script with Popen; a
\* directory that cannot be made or a Popen that raises ends the request
Launch(h) ==
    /\ pc = "web"
    /\ web.handler[h] = "popen"
    /\ \E outcome \in {"ok", "mkdir_error", "popen_error"} :
          IF outcome = "ok"
          THEN /\ web.launched < MaxLaunches
               /\ web' = [web EXCEPT !.handler[h] = "confirm",
                                     !.launched = @ + 1,
                                     !.procs = @ \cup {web.launched + 1}]
               /\ UNCHANGED out
          ELSE /\ web' = [web EXCEPT !.handler[h] = "idle"]
               /\ out' = [op |-> "start", handler |-> h, result |-> FALSE,
                          launched |-> FALSE]
    /\ UNCHANGED <<now, today, config, file, history, pool, pc, run, written, plex>>

\* after its pause start_script asks is_script_running again and returns
Confirm(h) ==
    /\ pc = "web"
    /\ web.handler[h] = "confirm"
    /\ web' = [web EXCEPT !.handler[h] = "idle"]
    /\ out' = [op |-> "start", handler |-> h,
               result |-> is_script_running(web.procs), launched |-> TRUE]
    /\ UNCHANGED <<now, today, config, file, history, pool, pc, run, written, plex>>

\* stop_route calls stop_script, which lists the processes that run the
\* script
StopRequest(h) ==
    /\ pc = "web"
    /\ web.handler[h] = "idle"
    /\ web' = [web EXCEPT !.handler[h] = "stopping", !.seen[h] = web.procs]
    /\ UNCHANGED <<now, today, config, file, history, pool, pc, run, written, out, plex>>

\* stop_script terminates the processes it listed and returns
StopKill(h) ==
    /\ pc = "web"
    /\ web.handler[h] = "stopping"
    /\ web' = [web EXCEPT !.handler[h] = "idle", !.seen[h] = {},
                          !.procs = @ \ web.seen[h]]
    /\ out' = [op |-> "stop", handler |-> h, result |-> web.seen[h] # {},
               launched |-> FALSE]
    /\ UNCHANGED <<now, today, config, file, history, pool, pc, run, written, plex>>

\* a script process ends by itself (run_continuously breaks out of its loop
\* or the process dies)
ScriptExits ==
    /\ pc = "web"
    /\ \E p \in web.procs : web' = [web EXCEPT !.procs = @ \ {p}]
    /\ UNCHANGED <<now, today, config, file, history, pool, pc, run, written, out, plex>>

NextWeb ==
    \/ \E h \in Handlers : StartRequest(h)
    \/ \E h \in Handlers : Launch(h)
    \/ \E h \in Handlers : Confirm(h)
    \/ \E h \in Handlers : StopRequest(h)
    \/ \E h \in Handlers : StopKill(h)
    \/ ScriptExits

SpecWeb == InitWeb /\ [][NextWeb]_vars

\* C27: after any interleaving of start and stop requests handled by the web
\* UI, at most one ColleXions.py process is running: start_script never
\* launches a second script process while one is running, including when two
\* start requests are handled concurrently.
C27_AtMostOneScript == Cardinality(web.procs) <= 1

\* The same as long as no start request was taken up while another handler
\* was inside start_script: it holds.
C27_AtMostOneScriptSerialStarts ==
    ~web.overlapped => Cardinality(web.procs) <= 1

----------------------------------------------------------------------------
(* SpecUnpin: the runs of main with the collections of Plex followed *)

\* the libraries of these runs
UnpinLibraries == <<"Films", "Shows">>

\* the configurations a run may find: a title may be excluded, and the label
\* may be written in another case or be empty
UnpinConfigs ==
    {[BaseConfig EXCEPT
         !.library_names = UnpinLibraries,
         !.number_of_collections_to_pin = [l \in Range(UnpinLibraries) |-> Num(1)],
         !.exclusion_list = el,
         !.collexions_label = label] :
     el \in {{}, {"F"}},
     label \in {"Collexions", "collexions", ""}}

\* what Plex may hold of a collection before the first run: pinned and
\* labelled by an earlier process, labelled and demoted by hand since,
\* promoted by hand under another label, or untouched
InitialHubs ==
    {Hub(TRUE, {"Collexions"}), Hub(FALSE, {"Collexions"}),
     Hub(TRUE, {"Other"}), Hub(FALSE, {})}

InitUnpin ==
    /\ now = MaxClock - 1
    /\ today = FilterToday
    /\ config = BaseConfig
    /\ file = LedgerFile("missing", EmptyDict)
    /\ history = EmptyDict
    /\ pool = <<>>
    /\ pc = "idle"
    /\ run = NoRun
    /\ written = {}
    /\ web = NoWeb
    /\ plex \in [{"F", "H"} -> InitialHubs]
    /\ out = [op |-> "none"]

\* main started by run_continuously, with one of these configurations in
\* config.json
UnpinStartRun == StartRunWith(UnpinConfigs)

NextUnpin ==
    \/ UnpinStartRun
    \/ ProcessLibrary
    \/ FinishRun
    \/ Sleep

SpecUnpin == InitUnpin /\ [][NextUnpin]_vars

\* unpin_collections has gone over the libraries and main has pinned nothing
\* since
UnpinDone == out.op = "unpin" /\ out.id = run.id

\* C29: unpin_collections demotes a collection or removes its label only if
\* the collection is currently promoted to home, carries the configured label
\* (compared case-insensitively) and its title is not in the explicit
\* exclusion list; when no label is configured, no collection is demoted or
\* unlabelled.
C29_UnpinOnlyPromotedLabelled ==
    UnpinDone
    => /\ \A t \in DOMAIN plex :
             plex[t] # out.before[t]
             => /\ out.before[t].promoted
                /\ HasLabel(out.before[t], config.collexions_label)
                /\ t \notin config.exclusion_list
       /\ config.collexions_label = "" => plex = out.before

\* C29 without the promotion: a collection that unpin_collections changes
\* carries the configured label and is not in the exclusion list, and nothing
\* changes when no label is configured
C29_UnpinOnlyLabelled ==
    UnpinDone
    => /\ \A t \in DOMAIN plex :
             plex[t] # out.before[t]
             => /\ HasLabel(out.before[t], config.collexions_label)
                /\ t \notin config.exclusion_list
       /\ config.collexions_label = "" => plex = out.before

\* the collections that the run before this one pinned, that carry the label
\* of this run and that are not excluded
DueForUnpin ==
    {t \in run.pinned_by_last_run \cap DOMAIN plex :
        /\ HasLabel(out.before[t], config.collexions_label)
        /\ t \notin config.exclusion_list}

\* the collections for which Plex served the listing of the library, the
\* visibility call and the demotion
ServedByPlex ==
    {t \in DOMAIN plex :
        /\ LibrariesOf(t, config) \cap out.listed # {}
        /\ out.outcome[t] \in {"ok", "remove_error"}}

====
